---- MODULE Spec2Model ----
(***************************************************************************)
(* Model of scripts/release.py: the ReleaseActor's steps, the Github       *)
(* client's run resolver (_get_run_id_by) and completion poller            *)
(* (_wait_for_workflow_run), and the helpers they rest on.                 *)
(*                                                                         *)
(* The program is single-threaded.  pc is the position of the one thread:  *)
(* "idle" between two invocations of the actor's methods, otherwise the    *)
(* loop or call of the Github client the thread is about to execute.       *)
(* Time is the monotonic clock, in seconds; a sleep of d seconds advances  *)
(* it by d, a remote request by its latency.                               *)
(***************************************************************************)
EXTENDS Integers, Sequences, FiniteSets, TLC

\* ---------------------------------------------------------------- bounds
\* At most MaxSlow remote requests of one Github call are slow (take one
\* second, the others none).
MaxSlow == 1

\* ------------------------------------------------------ program constants
MIN_BUILDTIME == 4 * 60
WORKFLOW_FETCH_DELAY == 10
WORKFLOW_NAME == "Publish"
\* range(4) in _get_run_id_by
MaxAttempts == 4
\* Variant: the first sleep is of two seconds.
InitialBackoffTwo == 1 + 1
\* backoff = 1 in _get_run_id_by
InitialBackoff == 1
\* backoff *= 2 in _get_run_id_by
BackoffMultiplier == 2
\* delay = 0.5 in hold_with_sticky: two ticks of the hold loop make a second
TicksPerSecond == 2

\* The module-level names TIMEOUT and WORKFLOW_POLL_SECONDS are read by
\* _wait_for_workflow_run at each use.  The model keeps them as state, set
\* once: to the values of the source, or to the values under which the
\* poller is exercised (overall timeout 5 s, poll interval 2 s).
SourceTiming == [timeout |-> 15 * 60, poll |-> 10]
ShortTiming == [timeout |-> 5, poll |-> 2]
Timings == {SourceTiming, ShortTiming}

None == "None"
\* self._workflow_id = None, and a run id not yet resolved
NoId == 0
NoErr == [kind |-> "none", detail |-> ""]
Error(k, d) == [kind |-> k, detail |-> d]

\* ------------------------------------------------------------ environment
\* The HEAD commit git rev-parse reports, and the version of this release.
HEAD == "c1"
NextVersion == "1.2.4"
BumpLevels == {"major", "minor", "patch"}
\* The version arguments the actor is constructed with.
VersionArgs == {"patch", "v1.2.4", "1.2"}
\* Tag names the latest published release may carry.
ReleaseTags == {"v1.2.4", "v1.2.3"}
\* Workflow definitions the repository may list.
WorkflowLists ==
  { << >>,
    << [name |-> "CI", id |-> 41] >>,
    << [name |-> "CI", id |-> 41], [name |-> "Publish", id |-> 42] >>,
    << [name |-> "Publish", id |-> 42], [name |-> "Publish", id |-> 43] >> }
\* The runs of the workflow the remote may list.  Ids are opaque: they do
\* not follow the run numbers.
RunA == [id |-> 103, run_number |-> 7, head_sha |-> HEAD, head_branch |-> "master"]
RunB == [id |-> 102, run_number |-> 9, head_sha |-> HEAD, head_branch |-> "v1.2.4"]
RunC == [id |-> 101, run_number |-> 8, head_sha |-> "c0", head_branch |-> "v1.2.4"]
RunUniverse == {RunA, RunB, RunC}
\* Every list of distinct runs, in every order.
RunLists ==
  UNION { { s \in [1..n -> RunUniverse] : \A i, j \in 1..n : i # j => s[i] # s[j] }
          : n \in 0..Cardinality(RunUniverse) }
Statuses == {"queued", "in_progress", "completed"}
Conclusions == {"success", "failure", "cancelled"}
\* Seconds a remote request takes.
Latencies == {0, 1}

VARIABLES
  did_commit_run, did_push_commit, did_release,   \* ReleaseState
  _github, _root, _commit_hash, _new_version,     \* ReleaseActor's memoized fields
  _version_arg,                                   \* ReleaseActor._version_arg
  _workflow_id,                                   \* Github._workflow_id (None: unset)
  TIMEOUT, WORKFLOW_POLL_SECONDS,                 \* module-level timing names
  backup, manifest,                               \* versions in Cargo.toml.bak, Cargo.toml
  mode, step,                                     \* who invokes the steps; main's position
  pc, op, err,                                    \* position, step in progress, its error
  cmds,                                           \* the external commands run, in order
  clock, slow,                                    \* monotonic seconds in this Github call
  backoff, retry, all_runs, run_id,               \* locals of _get_run_id_by
  start,                                          \* local of timeout_iter
  run,                                            \* the run last fetched by the poller
  fetches, matches, sleeps,                       \* resolver: requests, matches, sleeps
  holds,                                          \* hold_with_sticky calls: seconds held
  polls, poll_sleeps,                             \* poller: status requests, sleeps
  wf_fetches,                                     \* list-workflow-definitions requests
  release                                         \* check_release: the tag of the release fetched

state_vars == << did_commit_run, did_push_commit, did_release >>
actor_vars == << _github, _root, _commit_hash, _new_version, _version_arg >>
config_vars == << TIMEOUT, WORKFLOW_POLL_SECONDS >>
file_vars == << backup, manifest >>
resolver_vars == << backoff, retry, all_runs, run_id, fetches, matches, sleeps >>
poller_vars == << start, run, polls, poll_sleeps >>
time_vars == << clock, slow, holds >>
vars == << did_commit_run, did_push_commit, did_release,
           _github, _root, _commit_hash, _new_version, _version_arg,
           _workflow_id, TIMEOUT, WORKFLOW_POLL_SECONDS, backup, manifest,
           mode, step, pc, op, err, cmds, clock, slow,
           backoff, retry, all_runs, run_id, start, run,
           fetches, matches, sleeps, holds, polls, poll_sleeps, wf_fetches,
           release >>

\* ---------------------------------------------------------------- helpers
\* hold_with_sticky: the loop sleeps delay = 0.5 s at a time while
\* elapsed < start + seconds.  In ticks of delay: the number of sleeps is the
\* least n with began + n >= deadline.
HoldSleeps(began, deadline) ==
  CHOOSE n \in 0..(IF deadline > began THEN deadline - began ELSE 0) :
    /\ began + n >= deadline
    /\ n > 0 => began + (n - 1) < deadline

\* The clock, in seconds, when hold_with_sticky(msg, seconds) called at `now`
\* returns.
hold_with_sticky(now, seconds) ==
  (now * TicksPerSecond
     + HoldSleeps(now * TicksPerSecond, (now + seconds) * TicksPerSecond))
  \div TicksPerSecond

\* Variant: only the wait of push_commit holds the minimum build time.
BuildDelayCommitOnly(caller) == IF caller = "push_commit" THEN MIN_BUILDTIME ELSE 0
\* _wait_for_workflow_run, whichever step called it: the seconds it holds
\* before its loop.
BuildDelay(caller) == MIN_BUILDTIME

\* Variant: the start is the entry of _wait_for_workflow_run.
TimeoutStartAtEntry(entered, first_next) == entered
\* timeout_iter's start: time.monotonic() at the first next(), which the for
\* statement makes after the hold, not at the entry of the caller.
TimeoutStart(entered, first_next) == first_next

\* Variant: the id looked up is returned and not kept.
MemoizedNever(id) == NoId
\* Github.workflow_id: the value _workflow_id holds after a lookup found id.
Memoized(id) == id

\* Variant: the start is taken anew at each resumption.
TimeoutExpiredReset(now, began, timeout_seconds) == now >= now + timeout_seconds
\* Variant: the loop ends only once the deadline is passed.
TimeoutExpiredStrict(now, began, timeout_seconds) == now > began + timeout_seconds
\* timeout_iter, resumed at `now`: the generator ends the loop once
\* now >= start + timeout_seconds.
TimeoutExpired(now, began, timeout_seconds) == now >= began + timeout_seconds

\* Variant: a sleep of one second, whatever the poll interval.
PollSleepOneSecond(now) == now + 1
\* time.sleep(WORKFLOW_POLL_SECONDS) in _wait_for_workflow_run.
PollSleep(now) == now + WORKFLOW_POLL_SECONDS

\* Variant: a backoff that grows by a constant.
NextBackoffLinear(b) == b + InitialBackoff
\* backoff *= 2
NextBackoff(b) == b * BackoffMultiplier

\* Variant: one attempt more.
AttemptsExhaustedLate(r) == r > MaxAttempts
\* for _retry in range(4): the loop is left after the last attempt.
AttemptsExhausted(r) == r >= MaxAttempts

\* f"v{version}"
Tag(version) == "v" \o version

\* The predicates of _get_run_id_for_commit and _get_run_id_for_tag.
\* Variant: any run of the workflow is taken for the commit's.
ForCommitAny(r, commit) == TRUE
ForCommit(r, commit) == r.head_sha = commit
ForTag(r, tag) == r.head_branch = tag

\* Variant: the first run of the list.
MaxByRunNumberFirst(runs) == runs[1]
\* max(runs, key=lambda run: run["run_number"]): the first of the runs with
\* the greatest run_number.
MaxByRunNumber(runs) ==
  LET best[i \in 1..Len(runs)] ==
        IF i = 1 THEN runs[1]
        ELSE IF runs[i].run_number > best[i - 1].run_number THEN runs[i]
             ELSE best[i - 1]
  IN best[Len(runs)]

\* The id _get_run_id_by returns for a non-empty list of matching runs.
SelectRunId(runs) ==
  IF Len(runs) = 1 THEN runs[1].id ELSE MaxByRunNumber(runs).id

\* _fetch_workflow_id: the id of the first workflow named WORKFLOW_NAME,
\* NoId when no workflow has the name.
RECURSIVE FirstNamed(_, _)
FirstNamed(items, name) ==
  IF items = << >> THEN NoId
  ELSE IF Head(items).name = name THEN Head(items).id
       ELSE FirstNamed(Tail(items), name)

\* Variant: only the conclusion failure fails the wait.
IsSuccessLenient(conclusion) == conclusion # "failure"
\* conclusion == "success" in _wait_for_workflow_run
IsSuccess(conclusion) == conclusion = "success"

\* Variants: the step without its precondition.
PushPreconditionNone == TRUE
PublishPreconditionNone == TRUE
\* The preconditions of push_commit, run_release and cargo_publish.
PushPrecondition == did_commit_run
TagPrecondition == did_push_commit
PublishPrecondition == did_release

\* Variant: the flag assigned the comparison's result.
ReleasedAfterCheckAssigned(equal) == equal
\* Variant: the flag is set before the tags are compared.
ReleasedAfterCheckAlways(equal) == TRUE
\* did_release after check_release has compared the tags: the assignment is
\* reached only when they are equal.
ReleasedAfterCheck(equal) == IF equal THEN TRUE ELSE did_release

\* re.match(r"^v?(\d+\.\d+\.\d+)$", version_arg): the version matched, None
\* when the argument does not match.
SemverMatch(arg) ==
  CASE arg = "v1.2.4" -> "1.2.4"
    [] arg = "1.2.4" -> "1.2.4"
    [] OTHER -> None

\* _proc_run over a list of commands run one after the other, the first n
\* succeeding: the commands run, and whether all succeeded (a failing
\* command ends the process, sys.exit(1)).
ProcRun(commands, n) ==
  [log |-> SubSeq(commands, 1, IF n < Len(commands) THEN n + 1 ELSE Len(commands)),
   ok |-> n >= Len(commands)]

SystemExit == Error("SystemExit", "1")

\* determine_version(raw_arg, root): the outcomes, by what changie answers
\* and whether the tag file exists.
determine_version(arg) ==
  LET tagged(v, log) ==
        { [err |-> Error("TagExists", v), ver |-> None, log |-> log],
          [err |-> NoErr, ver |-> v, log |-> log] }
  IN IF arg \in BumpLevels
     THEN { [err |-> SystemExit, ver |-> None, log |-> << "changie next" >>] }
          \cup tagged(NextVersion, << "changie next" >>)
     ELSE IF SemverMatch(arg) = None
          THEN { [err |-> Error("ValueError", "Invalid version provided."),
                  ver |-> None, log |-> << >>] }
          ELSE tagged(SemverMatch(arg), << >>)

\* ReleaseActor.root: whether find_root finds the package root (memoized).
root(known) == IF known THEN {TRUE} ELSE BOOLEAN

\* ReleaseActor.new_version, the root being known or not: the outcomes, with
\* the memoized fields after it.
new_version(root_known) ==
  IF _new_version # None
  THEN { [err |-> NoErr, ver |-> _new_version, root |-> root_known, log |-> << >>] }
  ELSE UNION { IF found
               THEN { [err |-> d.err, ver |-> d.ver, root |-> TRUE, log |-> d.log]
                      : d \in determine_version(_version_arg) }
               ELSE { [err |-> Error("FileNotFoundError", "Could not find Cargo.toml."),
                       ver |-> None, root |-> FALSE, log |-> << >>] }
             : found \in root(root_known) }

\* ReleaseActor.github: whether Github.from_env finds the token (memoized).
github(known) == IF known THEN {TRUE} ELSE BOOLEAN
NoToken == Error("ValueError", "Need github token, none set")

\* confirm(msg) by the answer typed: TRUE, FALSE, or "exit" (sys.exit(1)).
Answers == {"", "y", "n", "q"}
confirm(answer) ==
  IF answer = "" THEN "False"
  ELSE IF answer = "y" THEN "True"
  ELSE IF answer = "n" THEN "False"
  ELSE "exit"

NoRun == [status |-> None, conclusion |-> None]

\* Where the thread is after a step ends with error e: back with the caller
\* of the step, or, in main, out of the process.
\* Variant: main goes on to its next step whatever the step raised.
AfterContinue(e) == "idle"
After(e) == IF e = NoErr \/ mode = "harness" THEN "idle" ELSE "exit"

\* Seconds the next remote request may take.
Latency == IF slow < MaxSlow THEN Latencies ELSE {0}

\* ------------------------------------------------------------------- Init
\* ReleaseActor.__init__, ReleaseState.__init__, Github.__init__: nothing
\* memoized, every flag False.
InitActor ==
  /\ did_commit_run = FALSE /\ did_push_commit = FALSE /\ did_release = FALSE
  /\ _github = FALSE /\ _root = FALSE
  /\ _commit_hash = None /\ _new_version = None
  /\ _version_arg \in VersionArgs
  /\ _workflow_id = NoId
  /\ \E t \in Timings : TIMEOUT = t.timeout /\ WORKFLOW_POLL_SECONDS = t.poll
  /\ backup = None /\ manifest = "1.2.3"
  /\ pc = "idle" /\ op = None /\ err = NoErr /\ cmds = << >>
  /\ clock = 0 /\ slow = 0 /\ holds = << >>
  /\ backoff = 0 /\ retry = 0 /\ all_runs = << >> /\ run_id = NoId
  /\ fetches = 0 /\ matches = << >> /\ sleeps = << >>
  /\ start = 0 /\ run = NoRun /\ polls = 0 /\ poll_sleeps = 0
  /\ wf_fetches = 0 /\ release = None

\* The actor's methods invoked one at a time, in any order.
Init == InitActor /\ mode = "harness" /\ step = 0

\* The actor's methods invoked by main.
InitMain == InitActor /\ mode = "main" /\ step = 0

\* The locals of the Github client's calls, as a new invocation finds them.
FreshLocals ==
  /\ clock' = 0 /\ slow' = 0
  /\ backoff' = 0 /\ retry' = 0 /\ all_runs' = << >> /\ run_id' = NoId
  /\ fetches' = 0 /\ matches' = << >> /\ sleeps' = << >>
  /\ start' = 0 /\ run' = NoRun /\ polls' = 0 /\ poll_sleeps' = 0
  /\ release' = None

Operations ==
  { "update_cargo_toml", "update_changelog", "commit_release", "push_commit",
    "run_release", "check_release", "cargo_publish" }

\* A caller invokes one method of the actor; what the previous invocation
\* ran and raised is no longer looked at.
Call(o) ==
  /\ mode = "harness" /\ pc = "idle"
  /\ op' = o /\ pc' = o /\ err' = NoErr /\ cmds' = << >> /\ wf_fetches' = 0 /\ holds' = << >>
  /\ FreshLocals
  /\ UNCHANGED << state_vars, actor_vars, _workflow_id, config_vars, file_vars,
                  mode, step >>

\* main: the steps in the order of the source.
\* Variant: the changelog is updated before the manifest.
MainStepsSwapped ==
  << "update_changelog", "update_cargo_toml", "commit_release", "push_commit",
     "run_release", "cargo_publish" >>
MainSteps ==
  << "update_cargo_toml", "update_changelog", "commit_release", "push_commit",
     "run_release", "cargo_publish" >>

MainStep ==
  /\ mode = "main" /\ pc = "idle" /\ step < Len(MainSteps)
  /\ step' = step + 1
  /\ op' = MainSteps[step + 1] /\ pc' = MainSteps[step + 1]
  /\ FreshLocals
  /\ UNCHANGED << state_vars, actor_vars, _workflow_id, config_vars, file_vars,
                  mode, err, cmds, wf_fetches, holds >>

\* main returns: the process exits with status 0.
MainExit ==
  /\ mode = "main" /\ pc = "idle" /\ step = Len(MainSteps)
  /\ pc' = "exit"
  /\ UNCHANGED << release, state_vars, actor_vars, _workflow_id, config_vars, file_vars,
                  mode, step, op, err, cmds, wf_fetches, time_vars,
                  resolver_vars, poller_vars >>

\* ------------------------------------------------------ ReleaseActor steps
\* update_cargo_toml: the outcomes, as the fields and files after it.
UpdateCargoTomlOutcomes ==
  UNION {
    IF ~found
    THEN { [root |-> FALSE, ver |-> _new_version, backup |-> backup,
            manifest |-> manifest, log |-> << >>,
            err |-> Error("FileNotFoundError", "Could not find Cargo.toml.")] }
    ELSE UNION {
      IF nv.err # NoErr
      THEN \* the backup is written, the manifest is not
           { [root |-> TRUE, ver |-> nv.ver, backup |-> manifest,
              manifest |-> manifest, log |-> nv.log, err |-> nv.err] }
      ELSE UNION {
        CASE confirm(answer) = "exit" ->
               { [root |-> TRUE, ver |-> nv.ver, backup |-> manifest,
                  manifest |-> nv.ver, log |-> nv.log \o << "pager" >>,
                  err |-> SystemExit] }
          [] confirm(answer) = "False" ->
               \* backup.rename(cargotoml)
               { [root |-> TRUE, ver |-> nv.ver, backup |-> None,
                  manifest |-> manifest, log |-> nv.log \o << "pager" >>,
                  err |-> Error("UserRejection", "Cargo.toml edits rejected by user.")] }
          [] OTHER ->
               \* backup.unlink(), cargo generate-lockfile
               { [root |-> TRUE, ver |-> nv.ver, backup |-> None,
                  manifest |-> nv.ver,
                  log |-> nv.log \o << "pager", "cargo generate-lockfile" >>,
                  err |-> IF ok THEN NoErr ELSE SystemExit] : ok \in BOOLEAN }
        : answer \in Answers }
      : nv \in new_version(TRUE) }
    : found \in root(_root) }

update_cargo_toml ==
  /\ pc = "update_cargo_toml"
  /\ \E r \in UpdateCargoTomlOutcomes :
       /\ _root' = r.root /\ _new_version' = r.ver
       /\ backup' = r.backup /\ manifest' = r.manifest
       /\ cmds' = cmds \o r.log
       /\ err' = r.err /\ pc' = After(r.err)
  /\ UNCHANGED << release, state_vars, _github, _commit_hash, _version_arg, _workflow_id,
                  config_vars, mode, step, op, wf_fetches, time_vars,
                  resolver_vars, poller_vars >>

\* update_changelog: changie batch <version>, changie merge.
UpdateChangelogOutcomes ==
  UNION {
    IF nv.err # NoErr
    THEN { [root |-> nv.root, ver |-> nv.ver, log |-> nv.log, err |-> nv.err] }
    ELSE { [root |-> nv.root, ver |-> nv.ver,
            log |-> nv.log \o ProcRun(<< "changie batch", "changie merge" >>, n).log,
            err |-> IF ProcRun(<< "changie batch", "changie merge" >>, n).ok
                    THEN NoErr ELSE SystemExit] : n \in 0..2 }
    : nv \in new_version(_root) }

update_changelog ==
  /\ pc = "update_changelog"
  /\ \E r \in UpdateChangelogOutcomes :
       /\ _root' = r.root /\ _new_version' = r.ver
       /\ cmds' = cmds \o r.log
       /\ err' = r.err /\ pc' = After(r.err)
  /\ UNCHANGED << release, state_vars, _github, _commit_hash, _version_arg, _workflow_id,
                  config_vars, file_vars, mode, step, op, wf_fetches, time_vars,
                  resolver_vars, poller_vars >>

\* commit_release: commit_changes (git add, git commit), then the flag.
CommitReleaseOutcomes ==
  UNION {
    IF nv.err # NoErr
    THEN { [root |-> nv.root, ver |-> nv.ver, log |-> nv.log, err |-> nv.err,
            committed |-> did_commit_run] }
    ELSE { [root |-> nv.root, ver |-> nv.ver,
            log |-> nv.log \o ProcRun(<< "git add", "git commit" >>, n).log,
            err |-> IF ProcRun(<< "git add", "git commit" >>, n).ok
                    THEN NoErr ELSE SystemExit,
            committed |-> IF ProcRun(<< "git add", "git commit" >>, n).ok
                          THEN TRUE ELSE did_commit_run] : n \in 0..2 }
    : nv \in new_version(_root) }

commit_release ==
  /\ pc = "commit_release"
  /\ \E r \in CommitReleaseOutcomes :
       /\ _root' = r.root /\ _new_version' = r.ver
       /\ cmds' = cmds \o r.log
       /\ did_commit_run' = r.committed
       /\ err' = r.err /\ pc' = After(r.err)
  /\ UNCHANGED << release, did_push_commit, did_release, _github, _commit_hash,
                  _version_arg, _workflow_id, config_vars, file_vars, mode, step,
                  op, wf_fetches, time_vars, resolver_vars, poller_vars >>

\* push_commit up to the call of wait_for_commit_workflow_success: the
\* precondition, git push, then the arguments self.github and
\* self.commit_hash (git rev-parse, memoized).
PushCommitOutcomes ==
  IF ~PushPrecondition
  THEN { [github |-> _github, hash |-> _commit_hash, log |-> << >>,
          err |-> Error("PreconditionViolation", "Tried to push before committing.")] }
  ELSE { [github |-> _github, hash |-> _commit_hash,
          log |-> << "git push origin master" >>, err |-> SystemExit] }
       \cup UNION {
         IF ~token
         THEN { [github |-> FALSE, hash |-> _commit_hash,
                 log |-> << "git push origin master" >>, err |-> NoToken] }
         ELSE IF ~did_commit_run
         THEN { [github |-> TRUE, hash |-> _commit_hash,
                 log |-> << "git push origin master" >>,
                 err |-> Error("PreconditionViolation",
                               "Tried to read commit hash before committing.")] }
         ELSE IF _commit_hash # None
         THEN { [github |-> TRUE, hash |-> _commit_hash,
                 log |-> << "git push origin master" >>, err |-> NoErr] }
         ELSE { [github |-> TRUE, hash |-> None,
                 log |-> << "git push origin master", "git rev-parse" >>,
                 err |-> SystemExit],
                [github |-> TRUE, hash |-> HEAD,
                 log |-> << "git push origin master", "git rev-parse" >>,
                 err |-> NoErr] }
         : token \in github(_github) }

push_commit ==
  /\ pc = "push_commit"
  /\ \E r \in PushCommitOutcomes :
       /\ _github' = r.github /\ _commit_hash' = r.hash
       /\ cmds' = cmds \o r.log
       /\ err' = r.err
       /\ pc' = IF r.err = NoErr THEN "_get_run_id_by" ELSE After(r.err)
  /\ UNCHANGED << release, state_vars, _root, _new_version, _version_arg, _workflow_id,
                  config_vars, file_vars, mode, step, op, wf_fetches, time_vars,
                  resolver_vars, poller_vars >>

\* run_release up to the call of wait_for_release_workflow: the
\* precondition, the tag (self.new_version), git tag, git push, self.github.
RunReleaseOutcomes ==
  IF ~TagPrecondition
  THEN { [root |-> _root, ver |-> _new_version, github |-> _github, log |-> << >>,
          err |-> Error("PreconditionViolation",
                        "Tried to tag before committing to master")] }
  ELSE UNION {
    IF nv.err # NoErr
    THEN { [root |-> nv.root, ver |-> nv.ver, github |-> _github,
            log |-> nv.log, err |-> nv.err] }
    ELSE UNION {
      IF ~ProcRun(<< "git tag", "git push origin tag" >>, n).ok
      THEN { [root |-> nv.root, ver |-> nv.ver, github |-> _github,
              log |-> nv.log \o ProcRun(<< "git tag", "git push origin tag" >>, n).log,
              err |-> SystemExit] }
      ELSE { [root |-> nv.root, ver |-> nv.ver, github |-> token,
              log |-> nv.log \o << "git tag", "git push origin tag" >>,
              err |-> IF token THEN NoErr ELSE NoToken]
             : token \in github(_github) }
      : n \in 0..2 }
    : nv \in new_version(_root) }

run_release ==
  /\ pc = "run_release"
  /\ \E r \in RunReleaseOutcomes :
       /\ _root' = r.root /\ _new_version' = r.ver /\ _github' = r.github
       /\ cmds' = cmds \o r.log
       /\ err' = r.err
       /\ pc' = IF r.err = NoErr THEN "_get_run_id_by" ELSE After(r.err)
  /\ UNCHANGED << release, state_vars, _commit_hash, _version_arg, _workflow_id,
                  config_vars, file_vars, mode, step, op, wf_fetches, time_vars,
                  resolver_vars, poller_vars >>

\* check_release: self.github, fetch_latest_release, the comparison with
\* f"v{self.new_version}", then the flag.
CheckReleaseOutcomes ==
  UNION {
    IF ~token
    THEN { [root |-> _root, ver |-> _new_version, github |-> FALSE,
            released |-> did_release, err |-> NoToken, log |-> << >>,
            release |-> None] }
    ELSE { [root |-> _root, ver |-> _new_version, github |-> TRUE,
            released |-> did_release, log |-> << >>, release |-> None,
            err |-> Error("HTTPError", "releases/latest")] }
         \cup UNION {
           IF nv.err # NoErr
           THEN { [root |-> nv.root, ver |-> nv.ver, github |-> TRUE,
                   released |-> did_release, err |-> nv.err, log |-> nv.log,
                   release |-> tag_name] : tag_name \in ReleaseTags }
           ELSE { [root |-> nv.root, ver |-> nv.ver, github |-> TRUE,
                   released |-> ReleasedAfterCheck(tag_name = Tag(nv.ver)),
                   log |-> nv.log, release |-> tag_name,
                   err |-> IF tag_name = Tag(nv.ver) THEN NoErr
                           ELSE Error("Mismatch", tag_name)]
                  : tag_name \in ReleaseTags }
           : nv \in new_version(_root) }
    : token \in github(_github) }

check_release ==
  /\ pc = "check_release"
  /\ \E r \in CheckReleaseOutcomes :
       /\ _root' = r.root /\ _new_version' = r.ver /\ _github' = r.github
       /\ cmds' = cmds \o r.log
       /\ did_release' = r.released /\ release' = r.release
       /\ err' = r.err /\ pc' = After(r.err)
  /\ UNCHANGED << did_commit_run, did_push_commit, _commit_hash, _version_arg,
                  _workflow_id, config_vars, file_vars, mode, step, op,
                  wf_fetches, time_vars, resolver_vars, poller_vars >>

\* cargo_publish: the precondition, then cargo publish.
CargoPublishOutcomes ==
  IF ~PublishPrecondition
  THEN { [log |-> << >>,
          err |-> Error("PreconditionViolation",
                        "Tried to publish cargo package before release.")] }
  ELSE { [log |-> << "cargo publish" >>, err |-> NoErr],
         [log |-> << "cargo publish" >>, err |-> SystemExit] }

cargo_publish ==
  /\ pc = "cargo_publish"
  /\ \E r \in CargoPublishOutcomes :
       /\ cmds' = cmds \o r.log
       /\ err' = r.err /\ pc' = After(r.err)
  /\ UNCHANGED << release, state_vars, actor_vars, _workflow_id, config_vars, file_vars,
                  mode, step, op, wf_fetches, time_vars, resolver_vars,
                  poller_vars >>

\* ----------------------------------------------------------- Github client
\* The predicate of the wait in progress: wait_for_commit_workflow_success
\* is called by push_commit, wait_for_release_workflow by run_release.
Matches(r) ==
  IF op = "push_commit" THEN ForCommit(r, _commit_hash)
  ELSE ForTag(r, Tag(_new_version))

\* list(filter(func, all_runs))
Filter(list) == SelectSeq(list, Matches)

\* _get_run_id_by up to its loop: the first backoff, the delay held.
_get_run_id_by ==
  /\ pc = "_get_run_id_by"
  /\ backoff' = InitialBackoff /\ retry' = 0
  /\ clock' = hold_with_sticky(clock, WORKFLOW_FETCH_DELAY)
  /\ holds' = Append(holds, WORKFLOW_FETCH_DELAY)
  /\ pc' = "fetch_runs"
  /\ UNCHANGED << release, state_vars, actor_vars, _workflow_id, config_vars, file_vars,
                  mode, step, op, err, cmds, wf_fetches, slow, all_runs, run_id,
                  fetches, matches, sleeps, poller_vars >>

\* Github.workflow_id with nothing memoized: _fetch_workflow_id.
workflow_id ==
  /\ pc = "fetch_runs" /\ _workflow_id = NoId
  /\ \E lat \in Latency, ok \in BOOLEAN :
     \E items \in (IF ok THEN WorkflowLists ELSE {<< >>}) :
       LET e == IF ~ok THEN Error("HTTPError", "actions/workflows")
                ELSE IF FirstNamed(items, WORKFLOW_NAME) = NoId
                     THEN Error("WorkflowNotConfigured",
                                "No workflow matched the predicate.")
                     ELSE NoErr
       IN /\ wf_fetches' = wf_fetches + 1
          /\ clock' = clock + lat /\ slow' = slow + lat
          /\ _workflow_id' = IF e = NoErr
                             THEN Memoized(FirstNamed(items, WORKFLOW_NAME))
                             ELSE NoId
          /\ err' = e
          /\ pc' = IF e = NoErr THEN "fetch_runs" ELSE After(e)
  /\ UNCHANGED << release, state_vars, actor_vars, config_vars, file_vars, mode, step, op,
                  cmds, holds, resolver_vars, poller_vars >>

\* One pass of the loop of _get_run_id_by: the runs are fetched and
\* filtered; with no match the thread sleeps backoff seconds, doubles it,
\* and the loop goes on or is left for the error.
fetch_runs ==
  /\ pc = "fetch_runs" /\ _workflow_id # NoId
  /\ \E lat \in Latency, ok \in BOOLEAN :
     \E list \in (IF ok THEN RunLists ELSE {<< >>}) :
       /\ fetches' = fetches + 1
       /\ slow' = slow + lat
       /\ IF ~ok
          THEN /\ err' = Error("HTTPError", "actions/workflows/runs")
               /\ pc' = After(err')
               /\ clock' = clock + lat
               /\ UNCHANGED << backoff, retry, all_runs, run_id, matches, sleeps >>
          ELSE /\ all_runs' = list
               /\ matches' = Append(matches, Len(Filter(list)))
               /\ IF Filter(list) = << >>
                  THEN /\ sleeps' = Append(sleeps, backoff)
                       /\ clock' = clock + lat + backoff
                       /\ backoff' = NextBackoff(backoff)
                       /\ retry' = retry + 1
                       /\ err' = IF AttemptsExhausted(retry + 1)
                                 THEN Error("RunNotFound",
                                            "No workflow runs found after 4 tries.")
                                 ELSE NoErr
                       /\ pc' = IF AttemptsExhausted(retry + 1) THEN After(err')
                                ELSE "fetch_runs"
                       /\ UNCHANGED run_id
                  ELSE /\ run_id' = SelectRunId(Filter(list))
                       /\ clock' = clock + lat
                       /\ pc' = "_wait_for_workflow_run"
                       /\ UNCHANGED << backoff, retry, sleeps, err >>
  /\ UNCHANGED << release, state_vars, actor_vars, _workflow_id, config_vars, file_vars,
                  mode, step, op, cmds, wf_fetches, holds, poller_vars >>

\* _wait_for_workflow_run up to its loop: the minimum build time is held,
\* then timeout_iter takes its start.  The locals of _get_run_id_by are gone;
\* the clock counts from the entry of this call.
_wait_for_workflow_run ==
  /\ pc = "_wait_for_workflow_run"
  /\ clock' = hold_with_sticky(0, BuildDelay(op))
  /\ holds' = Append(holds, BuildDelay(op))
  /\ slow' = 0
  /\ start' = TimeoutStart(0, clock')
  /\ backoff' = 0 /\ retry' = 0 /\ all_runs' = << >>
  /\ fetches' = 0 /\ matches' = << >> /\ sleeps' = << >>
  /\ pc' = "poll"
  /\ UNCHANGED << release, state_vars, actor_vars, _workflow_id, config_vars, file_vars,
                  mode, step, op, err, cmds, wf_fetches, run_id, run, polls,
                  poll_sleeps >>

\* One pass of the loop of _wait_for_workflow_run: the run is fetched; not
\* completed, the thread sleeps and timeout_iter goes on or ends the loop
\* for the timeout error; completed, the conclusion decides.  A successful
\* wait returns into its caller: push_commit sets its flag, run_release
\* calls check_release.
poll ==
  /\ pc = "poll"
  /\ \E lat \in Latency, ok \in BOOLEAN :
     \E status \in (IF ok THEN Statuses ELSE {None}) :
     \E conclusion \in (IF status = "completed" THEN Conclusions ELSE {None}) :
       /\ polls' = polls + 1
       /\ slow' = slow + lat
       /\ IF ~ok
          THEN /\ err' = Error("HTTPError", "actions/runs")
               /\ pc' = After(err')
               /\ clock' = clock + lat
               /\ UNCHANGED << run, poll_sleeps, did_push_commit >>
          ELSE /\ run' = [status |-> status, conclusion |-> conclusion]
               /\ IF status # "completed"
                  THEN /\ clock' = PollSleep(clock + lat)
                       /\ poll_sleeps' = poll_sleeps + 1
                       /\ err' = IF TimeoutExpired(clock', start, TIMEOUT)
                                 THEN Error("Timeout", "commit workflow timed out")
                                 ELSE NoErr
                       /\ pc' = IF TimeoutExpired(clock', start, TIMEOUT)
                                THEN After(err') ELSE "poll"
                       /\ UNCHANGED did_push_commit
                  ELSE /\ clock' = clock + lat
                       /\ UNCHANGED poll_sleeps
                       /\ IF ~IsSuccess(conclusion)
                          THEN /\ err' = Error("Failed", conclusion)
                               /\ pc' = After(err')
                               /\ UNCHANGED did_push_commit
                          ELSE /\ err' = NoErr
                               /\ IF op = "push_commit"
                                  THEN did_push_commit' = TRUE /\ pc' = "idle"
                                  ELSE pc' = "check_release"
                                       /\ UNCHANGED did_push_commit
  /\ UNCHANGED << release, did_commit_run, did_release, actor_vars, _workflow_id,
                  config_vars, file_vars, mode, step, op, cmds, wf_fetches,
                  holds, start, resolver_vars >>

\* ------------------------------------------------------------------- Next
Steps ==
  \/ update_cargo_toml
  \/ update_changelog
  \/ commit_release
  \/ push_commit
  \/ run_release
  \/ check_release
  \/ cargo_publish
  \/ _get_run_id_by
  \/ workflow_id
  \/ fetch_runs
  \/ _wait_for_workflow_run
  \/ poll

Next == (\E o \in Operations : Call(o)) \/ Steps

Spec == Init /\ [][Next]_vars

NextMain == MainStep \/ MainExit \/ Steps

SpecMain == InitMain /\ [][NextMain]_vars

\* ------------------------------------------------------------- properties
Waits == {"push_commit", "run_release"}

\* The runs of the list last fetched that the predicate of the wait matches.
Matching == { all_runs[i] : i \in { j \in DOMAIN all_runs : Matches(all_runs[j]) } }

AllZero(seq) == \A i \in DOMAIN seq : seq[i] = 0

\* C1: push_commit invoked while did_commit_run is False raises the
\* precondition error: no command is run (no git push), no wait is started
\* (no delay held, no run list or status fetched), the three flags keep
\* their values.
C1_PushBeforeCommitRaises ==
  [][ (pc = "push_commit" /\ ~did_commit_run)
        => /\ err'.kind = "PreconditionViolation"
           /\ pc' = "idle"
           /\ cmds' = cmds
           /\ holds' = holds /\ fetches' = fetches /\ polls' = polls
           /\ wf_fetches' = wf_fetches
           /\ UNCHANGED state_vars ]_vars

C1_Witness ==
  /\ op = "push_commit" /\ pc = "idle" /\ ~did_commit_run
  /\ err.kind = "PreconditionViolation" /\ cmds = << >>

\* C2: cargo_publish invoked while did_release is False raises the
\* precondition error and runs no command; cargo publish is only ever run
\* with did_release True.
C2_PublishBeforeReleaseRaises ==
  /\ [][ (pc = "cargo_publish" /\ ~did_release)
           => /\ err'.kind = "PreconditionViolation"
              /\ pc' = "idle"
              /\ cmds' = cmds
              /\ UNCHANGED state_vars ]_vars
  /\ []((\E i \in DOMAIN cmds : cmds[i] = "cargo publish") => did_release)

C2_Witness ==
  /\ op = "cargo_publish" /\ pc = "idle" /\ ~did_release /\ did_push_commit
  /\ err.kind = "PreconditionViolation" /\ cmds = << >>

\* C3: in every state reached by invoking the actor's methods in any order,
\* did_push_commit implies did_commit_run and did_release implies
\* did_push_commit.
C3_FlagOrder ==
  /\ did_push_commit => did_commit_run
  /\ did_release => did_push_commit

\* C4: the three flags start False and no step, failing or not, takes a
\* flag from True back to False.
C4_FlagsMonotone ==
  /\ (~did_commit_run /\ ~did_push_commit /\ ~did_release)
  /\ [][ /\ did_commit_run => did_commit_run'
         /\ did_push_commit => did_push_commit'
         /\ did_release => did_release' ]_vars

\* A step that ends in a fatal error with its flag already True.
C4_Witness ==
  /\ op = "check_release" /\ pc = "idle" /\ err.kind = "Mismatch"
  /\ did_release

\* C5: the predicate matching no run on the first three fetches and one run
\* on the fourth, _get_run_id_by returns that run's id after four fetches,
\* having slept 1, 2, 4 seconds between them and not after the fourth.
C5_BackoffThenFound ==
  matches = << 0, 0, 0, 1 >>
    => /\ pc = "_wait_for_workflow_run" /\ err = NoErr
       /\ fetches = 4
       /\ sleeps = << 1, 2, 4 >>
       /\ clock = WORKFLOW_FETCH_DELAY + 1 + 2 + 4 + slow
       /\ \E r \in Matching : run_id = r.id

C5_Witness ==
  /\ matches = << 0, 0, 0, 1 >> /\ pc = "_wait_for_workflow_run"
  /\ run_id = RunB.id /\ sleeps = << 1, 2, 4 >>

\* C6: the run list is never fetched a fifth time; when every fetch of a
\* call answered and matched no run, the call made exactly four fetches and
\* ended with the run-not-found error, no run id returned.
C6_NotFoundAfterFourFetches ==
  /\ fetches <= 4
  /\ (/\ op \in Waits /\ fetches >= 1 /\ pc # "fetch_runs"
      /\ Len(matches) = fetches /\ AllZero(matches))
       => /\ fetches = 4
          /\ err.kind = "RunNotFound" /\ pc = "idle"
          /\ run_id = NoId /\ polls = 0
  /\ err.kind = "RunNotFound" => (fetches = 4 /\ matches = << 0, 0, 0, 0 >>)

C6_Witness ==
  /\ err.kind = "RunNotFound" /\ fetches = 4 /\ matches = << 0, 0, 0, 0 >>
  /\ pc = "idle"

\* C7: a fetch that lists one or more matching runs ends _get_run_id_by at
\* once, with the id of the matching run of greatest run_number, whatever
\* the order of the list.
C7_LatestRunWins ==
  /\ \A i \in DOMAIN matches :
       matches[i] > 0 => (i = Len(matches) /\ pc = "_wait_for_workflow_run")
  /\ pc = "_wait_for_workflow_run"
       => /\ Matching # {}
          /\ \E r \in Matching :
               /\ run_id = r.id
               /\ \A q \in Matching : q.run_number <= r.run_number

\* Two matching runs, the one of greater run_number listed first.
C7_Witness ==
  /\ pc = "_wait_for_workflow_run" /\ op = "push_commit"
  /\ Len(all_runs) >= 2 /\ all_runs[1] = RunB /\ all_runs[2] = RunA
  /\ run_id = RunB.id

\* C8: a run seen not completed on k polls and then completed with
\* conclusion success ends _wait_for_workflow_run with success after k + 1
\* status fetches and k sleeps, each of the poll interval.
C8_SuccessAfterKSleeps ==
  (run.status = "completed" /\ run.conclusion = "success")
    => /\ polls = poll_sleeps + 1
       /\ clock = MIN_BUILDTIME + poll_sleeps * WORKFLOW_POLL_SECONDS + slow
       /\ op = "push_commit" => (pc = "idle" /\ err = NoErr /\ did_push_commit)
       /\ op = "run_release"
            => /\ pc \in {"check_release", "idle"}
               /\ err.kind \notin {"Timeout", "Failed", "RunNotFound"}

\* The case k = 2.
C8_Witness ==
  /\ run.status = "completed" /\ run.conclusion = "success"
  /\ op = "push_commit" /\ pc = "idle" /\ err = NoErr
  /\ polls = 3 /\ poll_sleeps = 2

\* C9: a run never seen completed ends _wait_for_workflow_run with the
\* timeout error, never with success: the loop goes on only while the
\* timeout has not elapsed, so the sleeps are bounded by it.
C9_NeverCompletedTimesOut ==
  /\ (pc = "poll" /\ polls > 0)
       => /\ clock < start + TIMEOUT
          /\ poll_sleeps * WORKFLOW_POLL_SECONDS < TIMEOUT
  /\ (/\ op \in Waits /\ polls > 0 /\ pc # "poll"
      /\ run.status # "completed" /\ err.kind # "HTTPError")
       => /\ err.kind = "Timeout" /\ pc = "idle"
          /\ clock >= start + TIMEOUT

\* Overall timeout 5 s, poll interval 2 s.
C9_Witness ==
  /\ TIMEOUT = 5 /\ WORKFLOW_POLL_SECONDS = 2
  /\ err.kind = "Timeout" /\ pc = "idle" /\ polls = 3
  /\ op = "push_commit" /\ ~did_push_commit

\* C10: the poll that sees the run completed with a conclusion other than
\* success ends the wait with a failure carrying that conclusion: no sleep,
\* no further poll, and the flags keep their values (the step sets none).
C10_FailedConclusionIsFatal ==
  /\ [][ (/\ pc = "poll" /\ polls' = polls + 1
          /\ run'.status = "completed" /\ run'.conclusion # "success")
           => /\ err' = Error("Failed", run'.conclusion)
              /\ pc' = "idle"
              /\ poll_sleeps' = poll_sleeps
              /\ clock' <= clock + 1
              /\ UNCHANGED state_vars ]_vars
  /\ [](err.kind = "Failed"
          => /\ pc = "idle" /\ run.status = "completed"
             /\ err.detail = run.conclusion /\ run.conclusion # "success")

C10_Witness ==
  /\ op = "push_commit" /\ pc = "idle" /\ err = Error("Failed", "cancelled")
  /\ did_commit_run /\ ~did_push_commit /\ polls = 2

\* ---------------------------------------------------------- main's run

\* The hold_with_sticky calls of MIN_BUILDTIME seconds made so far.
BuildHolds == Cardinality({ i \in DOMAIN holds : holds[i] = MIN_BUILDTIME })

\* The step of main that runs command c.
StepOf(c) ==
  CASE c \in {"changie next", "pager", "cargo generate-lockfile"} -> 1
    [] c \in {"changie batch", "changie merge"} -> 2
    [] c \in {"git add", "git commit"} -> 3
    [] c \in {"git push origin master", "git rev-parse"} -> 4
    [] c \in {"git tag", "git push origin tag"} -> 5
    [] c = "cargo publish" -> 6

\* C11 as stated: only the wait of push_commit holds the minimum build
\* time, the wait of run_release polls without it, so a run of main holds it
\* at most once.
C11_HeldOnlyForCommit ==
  /\ BuildHolds <= 1
  /\ (pc = "poll" /\ op = "run_release") => start = 0

\* C11, amended: _wait_for_workflow_run holds the minimum build time before
\* the first status request of every wait, push_commit's and run_release's
\* alike; a run of main that polls for the tag's workflow run has held it
\* twice.
C11_HeldForEveryWait ==
  pc = "poll"
    => /\ op \in Waits
       /\ holds[Len(holds)] = MIN_BUILDTIME
       /\ clock >= MIN_BUILDTIME
       /\ BuildHolds = (IF op = "push_commit" THEN 1 ELSE 2)

C11_Witness ==
  /\ pc = "poll" /\ op = "run_release" /\ polls = 0
  /\ holds = << WORKFLOW_FETCH_DELAY, MIN_BUILDTIME,
               WORKFLOW_FETCH_DELAY, MIN_BUILDTIME >>

\* C12: in main, when the wait of run_release has seen success and the
\* latest release's tag is not "v" + version, check_release raises the
\* mismatch after that wait: the process ends there, did_release stays
\* False and cargo publish is not run.
C12_MismatchIsFatal ==
  /\ (op = "run_release" /\ release \notin {None, Tag(_new_version)})
       => /\ err = Error("Mismatch", release)
          /\ pc = "exit" /\ step = 5
          /\ ~did_release
          /\ run.status = "completed" /\ run.conclusion = "success"
          /\ cmds[Len(cmds)] = "git push origin tag"
          /\ \A i \in DOMAIN cmds : cmds[i] # "cargo publish"
  /\ err.kind = "Mismatch" => release # Tag(_new_version)

C12_Witness ==
  /\ err = Error("Mismatch", "v1.2.3") /\ pc = "exit"
  /\ _new_version = "1.2.4" /\ release = "v1.2.3"
  /\ did_push_commit /\ ~did_release /\ polls > 0

\* C13: main runs its steps in the order update_cargo_toml,
\* update_changelog, commit_release, push_commit (with its wait),
\* run_release (with its wait and check), cargo_publish: no command of a
\* step is run before the step is reached, after a later step's, or twice;
\* main returns only with every step done; and a flag of the waits is set
\* only by its own step, on a run seen completed with success and, for
\* did_release, the latest release's tag equal to "v" + version.
C13_FixedOrder ==
  /\ [](/\ (step > 0 => op = MainSteps[step])
        /\ \A i \in DOMAIN cmds : StepOf(cmds[i]) <= step
        /\ \A i, j \in DOMAIN cmds :
             (i < j) => (/\ StepOf(cmds[i]) <= StepOf(cmds[j])
                         /\ cmds[i] # cmds[j])
        /\ (pc = "exit" /\ err = NoErr)
             => /\ step = Len(MainSteps)
                /\ did_commit_run /\ did_push_commit /\ did_release
                /\ \A k \in 1..Len(MainSteps) :
                     \E i \in DOMAIN cmds : StepOf(cmds[i]) = k
                /\ BuildHolds = 2)
  /\ [][ /\ ((~did_push_commit /\ did_push_commit')
               => (/\ op = "push_commit" /\ step = 4
                   /\ run'.status = "completed" /\ run'.conclusion = "success"))
          /\ ((~did_release /\ did_release')
               => (/\ op = "run_release" /\ step = 5
                   /\ run.status = "completed" /\ run.conclusion = "success"
                   /\ release' = Tag(_new_version'))) ]_vars

C13_Witness ==
  /\ pc = "exit" /\ err = NoErr /\ step = 6
  /\ cmds = << "changie next", "pager", "cargo generate-lockfile",
              "changie batch", "changie merge", "git add", "git commit",
              "git push origin master", "git rev-parse", "git tag",
              "git push origin tag", "cargo publish" >>

\* C14 as stated: the timeout of _wait_for_workflow_run counts from the
\* entry of the call (clock 0), so the loop goes on only while less than
\* TIMEOUT has passed since then, and the timeout error comes at the first
\* check after that, not later by a delay held inside the call.
C14_TimeoutFromCallEntry ==
  /\ (pc = "poll" /\ polls > 0) => clock < TIMEOUT
  /\ err.kind = "Timeout"
       => clock - (WORKFLOW_POLL_SECONDS + slow) < TIMEOUT

\* C14, amended: the timeout is measured once and not reset by an
\* iteration, but from the start of the loop, which is the end of the
\* minimum build time held inside the call: the loop goes on only while
\* less than TIMEOUT has passed since that start, and a run never seen
\* completed gets the timeout error MIN_BUILDTIME + TIMEOUT seconds after
\* the entry of the call at the earliest, at the first check after that.
C14_TimeoutFromLoopStart ==
  /\ []((pc = "poll" \/ (op \in Waits /\ polls > 0))
          => start = MIN_BUILDTIME)
  /\ []((pc = "poll" /\ polls > 0) => clock < MIN_BUILDTIME + TIMEOUT)
  /\ [](err.kind = "Timeout"
          => /\ clock >= MIN_BUILDTIME + TIMEOUT
             /\ clock - (WORKFLOW_POLL_SECONDS + slow) < MIN_BUILDTIME + TIMEOUT)
  /\ [][(pc = "poll" /\ polls' = polls + 1) => start' = start]_vars

C14_Witness ==
  /\ err.kind = "Timeout" /\ pc = "exit" /\ op = "run_release"
  /\ TIMEOUT = 15 * 60 /\ clock >= MIN_BUILDTIME + TIMEOUT /\ start = MIN_BUILDTIME

\* C15: Github.workflow_id is looked up lazily and memoized: in one run of
\* main the list of workflow definitions is requested at most once, not
\* before the first wait needs it and before that wait's first request for
\* the runs; once the id is held, no step changes it or requests the list
\* again, in any pass of _get_run_id_by and in either wait.
C15_WorkflowIdMemoized ==
  /\ [](/\ wf_fetches <= 1
        /\ _workflow_id # NoId => wf_fetches = 1
        /\ (wf_fetches = 1 /\ _workflow_id = NoId)
             => (pc = "exit" /\ err.kind \in {"HTTPError", "WorkflowNotConfigured"})
        /\ step < 4 => wf_fetches = 0
        /\ fetches > 0 => _workflow_id # NoId)
  /\ [][_workflow_id # NoId
          => (_workflow_id' = _workflow_id /\ wf_fetches' = wf_fetches)]_vars

C15_Witness ==
  /\ op = "run_release" /\ pc = "fetch_runs" /\ fetches = 2
  /\ wf_fetches = 1 /\ _workflow_id # NoId

\* C16: once a step of main has raised, the process is over: the error is
\* that of the step in progress, nothing runs after it (no command or
\* request of a later step, no retry, no undoing), and the raising step
\* leaves the flags as it found them.
C16_FatalHalts ==
  /\ [](err # NoErr
          => /\ pc = "exit" /\ step > 0 /\ op = MainSteps[step]
             /\ \A i \in DOMAIN cmds : StepOf(cmds[i]) <= step)
  /\ [][pc # "exit"]_vars
  /\ [][err' # NoErr => UNCHANGED state_vars]_vars

C16_Witness ==
  /\ pc = "exit" /\ err.kind = "Timeout" /\ op = "run_release"
  /\ did_commit_run /\ did_push_commit /\ ~did_release
  /\ cmds[Len(cmds)] = "git push origin tag"

\* C17 as stated: the version is computed and validated before
\* update_cargo_toml does anything; when the argument is no version or the
\* tag exists, the run ends with no file created or modified, the backup of
\* the manifest included, and nothing committed, pushed or tagged.
C17_VersionValidatedFirst ==
  (err.kind = "TagExists" \/ err = Error("ValueError", "Invalid version provided."))
    => /\ backup = None /\ manifest = "1.2.3"
       /\ \A i \in DOMAIN cmds : cmds[i] = "changie next"
       /\ ~did_commit_run /\ ~did_push_commit /\ ~did_release

\* C18: in a run of main, git tag is run only with did_push_commit set, and
\* that flag is set only by the poll of push_commit's wait that sees the run
\* resolved for the pushed HEAD commit completed with success; cargo publish
\* is run only with did_release set, and that flag is set only after the
\* wait of run_release has seen the tag's run completed with success.
C18_WaitsGate ==
  /\ []((\E i \in DOMAIN cmds : cmds[i] = "git tag")
          => (did_commit_run /\ did_push_commit))
  /\ []((\E i \in DOMAIN cmds : cmds[i] = "cargo publish")
          => (did_push_commit /\ did_release))
  /\ [][(~did_push_commit /\ did_push_commit')
          => /\ pc = "poll" /\ op = "push_commit" /\ _commit_hash = HEAD
             /\ \E r \in RunUniverse : r.id = run_id /\ r.head_sha = HEAD
             /\ run'.status = "completed" /\ run'.conclusion = "success"]_vars
  /\ [][(~did_release /\ did_release')
          => /\ pc = "check_release" /\ op = "run_release"
             /\ \E r \in RunUniverse :
                  r.id = run_id /\ r.head_branch = "v" \o _new_version
             /\ run.status = "completed" /\ run.conclusion = "success"]_vars

C18_Witness ==
  /\ pc = "cargo_publish" /\ did_push_commit /\ did_release
  /\ \E i \in DOMAIN cmds : cmds[i] = "git tag"

\* C19: _get_run_id_by, finding no run in any of its four requests, has
\* slept after each of them, the last included: 1, 2, 4 and 8 seconds, 15
\* in all, after WORKFLOW_FETCH_DELAY held once before the first request;
\* then it raises.
C19_ExhaustionSleeps ==
  /\ err.kind = "RunNotFound"
       => /\ sleeps = << 1, 2, 4, 8 >>
          /\ fetches = MaxAttempts
          /\ \A i \in DOMAIN matches : matches[i] = 0
          /\ clock = WORKFLOW_FETCH_DELAY + (1 + 2 + 4 + 8) + slow
          /\ holds[Len(holds)] = WORKFLOW_FETCH_DELAY
          /\ Len(holds) = (IF op = "push_commit" THEN 1 ELSE 3)
          /\ pc = "exit"
  /\ pc = "fetch_runs" => Len(sleeps) = fetches

C19_Witness ==
  /\ err.kind = "RunNotFound" /\ op = "run_release" /\ slow = 0
  /\ sleeps = << 1, 2, 4, 8 >> /\ clock = WORKFLOW_FETCH_DELAY + 15

\* The status requests of a wait whose run never completes, requests taking
\* no time: max(1, ceil(TIMEOUT / WORKFLOW_POLL_SECONDS)).
ExpectedPolls ==
  LET ceil == (TIMEOUT + WORKFLOW_POLL_SECONDS - 1) \div WORKFLOW_POLL_SECONDS
  IN IF ceil > 1 THEN ceil ELSE 1

\* C20: the loop of _wait_for_workflow_run requests the status at least
\* once and timeout_iter looks at the deadline only after the sleep that
\* follows a request: with requests taking no time a run never completed is
\* requested exactly max(1, ceil(TIMEOUT / WORKFLOW_POLL_SECONDS)) times (3
\* for 5 s and 2 s) and the timeout error comes less than one poll interval
\* after the deadline; a request that sees the run completed ends the loop
\* by its conclusion, never by the timeout.
C20_PollCount ==
  /\ err.kind = "Timeout" => (polls >= 1 /\ poll_sleeps = polls)
  /\ (err.kind = "Timeout" /\ slow = 0)
       => /\ polls = ExpectedPolls
          /\ (TIMEOUT = 5 /\ WORKFLOW_POLL_SECONDS = 2) => polls = 3
          /\ clock - (start + TIMEOUT) \in 0..(WORKFLOW_POLL_SECONDS - 1)
  /\ (pc = "poll" /\ slow = 0) => polls < ExpectedPolls
  /\ (op \in Waits /\ run.status = "completed")
       => (pc # "poll" /\ err.kind # "Timeout")

C20_Witness ==
  /\ err.kind = "Timeout" /\ slow = 0 /\ op = "run_release"
  /\ TIMEOUT = 5 /\ WORKFLOW_POLL_SECONDS = 2 /\ polls = 3

====
